---- MODULE Spec2Model ----
(***************************************************************************)
(* Model of src/main.py: the prayer-time notification bot.                 *)
(*                                                                         *)
(* Time is the integer number of seconds since 2025-01-01 00:00:00 UTC.    *)
(* A calendar date is the number of whole days since 2025-01-01 (all the   *)
(* dates of the model lie in January 2025).  A Python string is a sequence *)
(* of atoms: one-character strings, and the indivisible words (a city      *)
(* code, a prayer name, a quote type) that hold no separator character.    *)
(***************************************************************************)
EXTENDS Integers, Sequences, FiniteSets, TLC

VARIABLES
    now,                    \* the wall clock (seconds, UTC)
    started,                \* post_init has run
    subscribers,            \* the table `subscribers` of the database
    cache,                  \* the global TTLCache
    daily_quotes,           \* daily_quotes['ayat']
    sent_notifications,     \* the keys of the global dict sent_notifications
    sent_daily_schedules,   \* the keys of the global dict sent_daily_schedules
    last,                   \* what the operation just run did (observation)
    fn_in,                  \* inputs of the time matcher (SpecDue)
    fn_out,                 \* result of the time matcher (SpecDue)
    tasks,                  \* the coroutines suspended at an await
    digests                 \* how often each digest was delivered (observation)

vars == <<now, started, subscribers, cache, daily_quotes, sent_notifications,
          sent_daily_schedules, last, fn_in, fn_out, tasks, digests>>

(***************************************************************************)
(* Bounds of the model.                                                    *)
(***************************************************************************)
MaxDay == 1
MaxChat == 2

(***************************************************************************)
(* Program constants.                                                      *)
(***************************************************************************)
CACHE_TIMEOUT == 3600
maxsize == 100
PRAYER_NAMES == <<"Fajr", "Shuruk", "Zuhr", "Asr", "Maghrib", "Isha">>

\* The values of CITIES that the model draws from, and their CITY_TIMEZONES.
Cities == {"moscow", "ufa"}

CITY_TIMEZONES(city_code) ==
    CASE city_code = "moscow" -> "Europe/Moscow"
      [] city_code = "ufa" -> "Asia/Yekaterinburg"

\* pytz.timezone(name) at any instant of January 2025: the offset from UTC.
utcoffset(tz) ==
    CASE tz = "Europe/Moscow" -> 3 * 3600
      [] tz = "Asia/Yekaterinburg" -> 5 * 3600
      [] tz = "UTC" -> 0

\* The time zone datetime.date.today() reads (the host's).
HostTz == "UTC"

ChatIds == 1..MaxChat

(***************************************************************************)
(* Strings.                                                                *)
(***************************************************************************)
Digits == <<"0", "1", "2", "3", "4", "5", "6", "7", "8", "9">>

DigitSet == {Digits[i] : i \in 1..10}

DigitVal(c) == (CHOOSE i \in 1..10 : Digits[i] = c) - 1

\* "%02d"
TwoDigits(n) == <<Digits[(n \div 10) + 1], Digits[(n % 10) + 1]>>

\* str(n) for n >= 0
RECURSIVE str(_)
str(n) == IF n < 10 THEN <<Digits[n + 1]>> ELSE str(n \div 10) \o <<Digits[(n % 10) + 1]>>

\* s.split(sep)
RECURSIVE split(_, _)
split(s, sep) ==
    IF \A i \in 1..Len(s) : s[i] # sep
    THEN <<s>>
    ELSE LET i == CHOOSE j \in 1..Len(s) : s[j] = sep /\ \A k \in 1..(j - 1) : s[k] # sep
         IN  <<SubSeq(s, 1, i - 1)>> \o split(SubSeq(s, i + 1, Len(s)), sep)

IsDigits(s) == Len(s) > 0 /\ \A i \in 1..Len(s) : s[i] \in DigitSet

\* int(s) for a string of digits
RECURSIVE int(_)
int(s) == IF Len(s) = 0 THEN 0 ELSE 10 * int(SubSeq(s, 1, Len(s) - 1)) + DigitVal(s[Len(s)])

(***************************************************************************)
(* Dates and times.                                                        *)
(***************************************************************************)
\* datetime.datetime.now(tz): the local wall clock, as seconds since the epoch.
localnow(t, tz) == t + utcoffset(tz)

\* .date()
date(local) == local \div 86400

\* date.day
day(d) == d + 1

\* date.strftime('%Y-%m-%d'), also str(date)
strftime_date(d) == <<"2", "0", "2", "5", "-", "0", "1", "-">> \o TwoDigits(day(d))

\* now.strftime("%H:%M")
strftime_HM(local) ==
    TwoDigits((local \div 3600) % 24) \o <<":">> \o TwoDigits((local \div 60) % 60)

\* datetime.datetime.strptime(s, '%Y-%m-%d'): err is the ValueError, v the date.
strptime(s) ==
    IF /\ Len(s) = 10
       /\ s[5] = "-" /\ s[8] = "-"
       /\ IsDigits(SubSeq(s, 1, 4)) /\ IsDigits(SubSeq(s, 6, 7)) /\ IsDigits(SubSeq(s, 9, 10))
    THEN [err |-> FALSE, v |-> int(SubSeq(s, 9, 10)) - 1]
    ELSE [err |-> TRUE, v |-> 0]

\* sum(x * int(t) for x, t in zip([60, 1], s.split(":"))): err is the ValueError
\* of int(), v the sum.
sum_minutes(s) ==
    LET parts == split(s, ":")
        n == IF Len(parts) < 2 THEN Len(parts) ELSE 2
    IN  IF \E i \in 1..n : ~IsDigits(parts[i])
        THEN [err |-> TRUE, v |-> 0]
        ELSE [err |-> FALSE,
              v |-> IF n = 1 THEN 60 * int(parts[1]) ELSE 60 * int(parts[1]) + int(parts[2])]

\* sum_minutes, tabulated once for the strings "00:00" .. "23:59".
ClockStrings == {strftime_HM(60 * m) : m \in 0..1439}

MinutesTable == [s \in ClockStrings |-> sum_minutes(s)]

minutes_of(s) == IF s \in ClockStrings THEN MinutesTable[s] ELSE sum_minutes(s)

(***************************************************************************)
(* The cache: cachetools.TTLCache(maxsize, ttl).  An entry holds its value *)
(* and the instant it expires; `at` records when it was stored.  An        *)
(* expired entry is invisible to `in` and to `[]`, and stays in the table  *)
(* until the next store.                                                   *)
(***************************************************************************)
NoEntry == [value |-> <<>>, expires |-> 0, at |-> 0, present |-> FALSE]

EmptyCache == [k \in {} |-> NoEntry]

cache_key(prefix, d) == <<prefix, "_">> \o strftime_date(d)

\* TTLCache.expire(): the entries that have not expired at t.
cache_live(c, t) == {k \in DOMAIN c : t < c[k].expires}

\* key in cache
cache_contains(c, k, t) == k \in cache_live(c, t)

\* The entry the cache holds under k, expired or not.
cache_entry(c, k) == IF k \in DOMAIN c THEN c[k] ELSE NoEntry

\* An expiry one second late.
cache_expiry_late(t) == t + CACHE_TIMEOUT + 1

\* The instant an entry stored at t expires.
cache_expiry(t) == t + CACHE_TIMEOUT

\* cache[k] = v: expired entries go, the oldest entries go while the cache is
\* full, and k is stored with a fresh expiry.
cache_setitem(c, k, v, t) ==
    LET live == cache_live(c, t) \ {k}
        kept == IF Cardinality(live) < maxsize
                THEN live
                ELSE live \ {CHOOSE o \in live : \A x \in live : c[o].expires <= c[x].expires}
    IN  [x \in kept \cup {k} |->
            IF x = k
            THEN [value |-> v, expires |-> cache_expiry(t), at |-> t, present |-> TRUE]
            ELSE c[x]]

(***************************************************************************)
(* The data provider: what fetch_url may return for a timetable page and   *)
(* for the quote page.  A row of the table is its eight columns.           *)
(***************************************************************************)
MonthDays == 1..(MaxDay + 3)

TimesA == <<<<"0", "5", ":", "0", "0">>, <<"0", "6", ":", "4", "0">>,
            <<"1", "2", ":", "0", "0">>, <<"1", "4", ":", "0", "0">>,
            <<"1", "6", ":", "3", "0">>, <<"1", "8", ":", "1", "0">>>>

TimesB == <<<<"0", "4", ":", "5", "0">>, <<"0", "6", ":", "5", "0">>,
            <<"1", "2", ":", "0", "0">>, <<"1", "4", ":", "0", "5">>,
            <<"1", "6", ":", "3", "5">>, <<"1", "8", ":", "1", "5">>>>

Row(n, times) == <<str(n), <<"w">>>> \o times

NoHtml == [text |-> FALSE, table |-> FALSE, rows |-> <<>>]
NoTable == [text |-> TRUE, table |-> FALSE, rows |-> <<>>]
PageA == [text |-> TRUE, table |-> TRUE, rows |-> [n \in MonthDays |-> Row(n, TimesA)]]
PageB == [text |-> TRUE, table |-> TRUE,
          rows |-> [n \in 1..(MaxDay + 2) |-> Row(n + 1, TimesB)]]

\* A page whose rows have an empty cell in the column of the second event.
TimesC == [TimesA EXCEPT ![2] = <<>>]

PageC == [text |-> TRUE, table |-> TRUE, rows |-> [n \in MonthDays |-> Row(n, TimesC)]]

\* The pages drawn by the operations that make one lookup, and by the
\* operations that make one lookup for each subscriber or city.
Pages == {NoHtml, NoTable, PageA, PageB}
TickPages == {NoHtml, PageA}

NoBlock == [text |-> TRUE, block |-> FALSE, quote |-> <<>>]
NoQuoteHtml == [text |-> FALSE, block |-> FALSE, quote |-> <<>>]
QuotePage(q) == [text |-> TRUE, block |-> TRUE, quote |-> <<q>>]

QuotePages == {NoQuoteHtml, NoBlock, QuotePage("ayat1"), QuotePage("ayat2")}
TickQuotePages == {NoBlock, QuotePage("ayat1")}

(***************************************************************************)
(* parse_prayer_times and get_daily_quote.  Each returns the cache after   *)
(* the call, the value returned ({} is <<>>), and a record of the call.    *)
(***************************************************************************)
\* The first row with at least 8 columns whose first column is str(date.day).
find_row(rows, d) ==
    LET hits == {i \in 1..Len(rows) : Len(rows[i]) >= 8 /\ rows[i][1] = str(day(d))}
    IN  IF hits = {} THEN <<>>
        ELSE LET r == rows[CHOOSE i \in hits : \A j \in hits : i <= j]
             IN  SubSeq(r, 3, 8)

\* What a fetched page yields: the value to store and return, <<>> for none.
schedule_of(html, d) ==
    IF ~html.text \/ ~html.table THEN <<>> ELSE find_row(html.rows, d)

quote_of(html) ==
    IF ~html.text \/ ~html.block THEN <<>> ELSE html.quote

\* lookup with the result of the fetch stored whatever it is.
lookup_storing_all(c, k, t, fetched_value) ==
    IF cache_contains(c, k, t)
    THEN [cache |-> c, value |-> c[k].value,
          call |-> [key |-> k, before |-> cache_entry(c, k), fetched |-> FALSE,
                    value |-> c[k].value, stored |-> TRUE]]
    ELSE LET c2 == cache_setitem(c, k, fetched_value, t)
         IN  [cache |-> c2, value |-> fetched_value,
              call |-> [key |-> k, before |-> cache_entry(c, k), fetched |-> TRUE,
                        value |-> fetched_value, stored |-> cache_contains(c2, k, t)]]

\* The lookup shared by both functions: a hit returns the cached value; a miss
\* fetches, and stores the value when there is one.
lookup(c, k, t, fetched_value) ==
    IF cache_contains(c, k, t)
    THEN [cache |-> c, value |-> c[k].value,
          call |-> [key |-> k, before |-> cache_entry(c, k), fetched |-> FALSE,
                    value |-> c[k].value, stored |-> TRUE]]
    ELSE LET c2 == IF fetched_value = <<>> THEN c ELSE cache_setitem(c, k, fetched_value, t)
         IN  [cache |-> c2, value |-> fetched_value,
              call |-> [key |-> k, before |-> cache_entry(c, k), fetched |-> TRUE,
                        value |-> fetched_value, stored |-> cache_contains(c2, k, t)]]

parse_prayer_times(c, city, d, t, html) ==
    lookup(c, cache_key(city, d), t, schedule_of(html, d))

get_daily_quote(c, quote_type, t, html) ==
    lookup(c, cache_key(quote_type, date(localnow(t, HostTz))), t, quote_of(html))

(***************************************************************************)
(* The database.                                                           *)
(***************************************************************************)
NoRow == [present |-> FALSE, city |-> "", tz |-> "", subscribed |-> 0]

\* SELECT chat_id, city, timezone FROM subscribers WHERE subscribed = 1, in
\* the order of the primary key.
RECURSIVE select_from(_, _)
select_from(db, n) ==
    IF n > MaxChat THEN <<>>
    ELSE (IF db[n].present /\ db[n].subscribed = 1
          THEN <<[chat_id |-> n, city |-> db[n].city, tz |-> db[n].tz]>>
          ELSE <<>>) \o select_from(db, n + 1)

\* A query without the WHERE clause: every record, subscribed or not.
get_all_users(db) ==
    select_from([c \in DOMAIN db |-> [db[c] EXCEPT !.subscribed = 1]], 1)

get_subscribed_users(db) == select_from(db, 1)

\* INSERT OR REPLACE INTO subscribers VALUES (chat_id, city, timezone, 1)
update_user(db, chat_id, city, timezone) ==
    [db EXCEPT ![chat_id] = [present |-> TRUE, city |-> city, tz |-> timezone, subscribed |-> 1]]

\* An unsubscribe that deletes the row instead of clearing its flag.
unsubscribe_user_deleting(db, chat_id) == [db EXCEPT ![chat_id] = NoRow]

\* UPDATE subscribers SET subscribed = 0 WHERE chat_id = ?
unsubscribe_user(db, chat_id) ==
    [db EXCEPT ![chat_id] = IF @.present THEN [@ EXCEPT !.subscribed = 0] ELSE @]

(***************************************************************************)
(* The dedup ledgers: keys, and the pruning at the head of a tick.         *)
(***************************************************************************)
\* f"{today.strftime('%Y-%m-%d')}-{prayer}-{user['chat_id']}"
notification_id(today, prayer, chat_id) ==
    strftime_date(today) \o <<"-", prayer, "-">> \o str(chat_id)

\* f"{today.strftime('%Y-%m-%d')}-{user['chat_id']}"
schedule_id(today, chat_id) == strftime_date(today) \o <<"-">> \o str(chat_id)

\* k.split('-')[0]
date_part(k) == split(k, "-")[1]

\* strptime(...) > cutoff_date compares a naive datetime with an aware one:
\* Python raises TypeError whatever the two instants are.
naive_gt_aware(d, cutoff) == "TypeError"

\* What the loop of check_prayer_times does with one key: "keep", "drop" (the
\* else branch, or the ValueError caught in the loop) or "TypeError".
clean_key(k, cutoff) ==
    LET dp == date_part(k)
    IN  IF Len(dp) = 10 /\ dp[5] = "-" /\ dp[8] = "-"
        THEN (IF strptime(dp).err THEN "drop" ELSE naive_gt_aware(strptime(dp).v, cutoff))
        ELSE "drop"

\* The cleaning loop of check_prayer_times: the keys kept, or the exception
\* that leaves the loop (the assignment is then not reached).
clean_notifications(keys, cutoff) ==
    IF \E k \in keys : clean_key(k, cutoff) = "TypeError"
    THEN [raised |-> TRUE, keys |-> keys]
    ELSE [raised |-> FALSE, keys |-> {k \in keys : clean_key(k, cutoff) = "keep"}]

\* What the comprehension of send_daily_prayer_schedule does with one key:
\* strptime is called outside any try.
filter_key(k, cutoff) ==
    LET dp == date_part(k)
    IN  IF strptime(dp).err THEN "ValueError" ELSE naive_gt_aware(strptime(dp).v, cutoff)

\* A comprehension that drops the keys it cannot compare instead of raising.
filter_schedules_dropping(keys, cutoff) ==
    [raised |-> FALSE, keys |-> {k \in keys : filter_key(k, cutoff) = "keep"}]

filter_schedules(keys, cutoff) ==
    IF \E k \in keys : filter_key(k, cutoff) # "keep"
    THEN [raised |-> TRUE, keys |-> keys]
    ELSE [raised |-> FALSE, keys |-> {k \in keys : filter_key(k, cutoff) = "keep"}]

(***************************************************************************)
(* Observation of an operation: the subscribers it read, what became of    *)
(* each, the lookups it made and the messages it handed to the channel.    *)
(***************************************************************************)
Observe(op, raised, users, st) ==
    [op |-> op, raised |-> raised, users |-> users,
     outcome |-> st.outcome, calls |-> st.calls, sends |-> st.sends]

Idle == [op |-> "idle", raised |-> FALSE, users |-> <<>>, outcome |-> <<>>, calls |-> <<>>,
         sends |-> {}]

NoWork(c, ledger) == [cache |-> c, ledger |-> ledger, outcome |-> <<>>, calls |-> <<>>, sends |-> {}]

Message(kind, chat_id, what, d) == [kind |-> kind, chat |-> chat_id, what |-> what, date |-> d]

Delivered(sends) == {s.msg : s \in {x \in sends : x.ok}}

\* context.bot.send_message: ok says whether the channel took the message.
send_message(sends, msg, key, ok) == sends \cup {[msg |-> msg, key |-> key, ok |-> ok]}

\* The number of sends a subscriber's pass gets through before one raises.
SendBudgets == {0, Len(PRAYER_NAMES)}

\* The (subscriber, date) pairs a digest was delivered for since the process
\* started, each with the number of deliveries (counted up to 2).
NoDigests == [k \in {} |-> 0]

count_digests(d, sends) ==
    LET new == {<<m.chat, m.date>> : m \in {x \in Delivered(sends) : x.kind = "digest"}}
    IN  [k \in DOMAIN d \cup new |->
            LET n == (IF k \in DOMAIN d THEN d[k] ELSE 0) + (IF k \in new THEN 1 ELSE 0)
            IN  IF n > 2 THEN 2 ELSE n]

\* The coroutines that can be suspended at an await: one run of each poll job
\* (the job queue starts no second run of a job while one is running) and
\* one command handler.
TaskNames == {"check_prayer_times", "send_daily_prayer_schedule", "daily_schedule"}

NoTask == [pc |-> "idle"]

NoTasks == [a \in TaskNames |-> NoTask]

(***************************************************************************)
(* check_prayer_times.                                                     *)
(***************************************************************************)
\* A matcher that also takes the events still to come.
is_due_or_later(time_diff) == time_diff >= 0

\* time_diff == 0
is_due(time_diff) == time_diff = 0

\* sent_notifications[notification_id] = True, reached when the send returned.
mark_sent(ledger, id) == ledger \cup {id}

\* deliver with the key marked before the send is known to have succeeded.
deliver_marking_first(ledger, sends, msg, id, ok) ==
    [ledger |-> mark_sent(ledger, id), sends |-> send_message(sends, msg, id, ok),
     err |-> ~ok]

\* deliver with the key marked and the message never handed to the channel.
deliver_without_send(ledger, sends, msg, id, ok) ==
    [ledger |-> mark_sent(ledger, id), sends |-> sends, err |-> FALSE]

\* await context.bot.send_message(...), then the key is marked: a send that
\* raises leaves the statement that marks the key unreached.
deliver(ledger, sends, msg, id, ok) ==
    IF ok
    THEN [ledger |-> mark_sent(ledger, id), sends |-> send_message(sends, msg, id, TRUE),
          err |-> FALSE]
    ELSE [ledger |-> ledger, sends |-> send_message(sends, msg, id, FALSE), err |-> TRUE]

\* for prayer, time in schedule.items(): ... ; err is the exception that
\* leaves the loop (int() or send_message).
RECURSIVE prayer_loop(_, _, _, _, _, _, _, _)
prayer_loop(i, schedule, current_time, today, chat_id, ledger, sends, budget) ==
    IF i > Len(schedule)
    THEN [ledger |-> ledger, sends |-> sends, err |-> FALSE]
    ELSE LET prayer == PRAYER_NAMES[i]
             prayer_minutes == minutes_of(schedule[i])
             current_minutes == minutes_of(current_time)
             id == notification_id(today, prayer, chat_id)
             msg == Message("prayer", chat_id, prayer, today)
         IN  IF prayer_minutes.err \/ current_minutes.err
             THEN [ledger |-> ledger, sends |-> sends, err |-> TRUE]
             ELSE IF is_due(prayer_minutes.v - current_minutes.v) /\ id \notin ledger
             THEN LET d == deliver(ledger, sends, msg, id, budget > 0)
                  IN  IF d.err THEN d
                      ELSE prayer_loop(i + 1, schedule, current_time, today, chat_id,
                                       d.ledger, d.sends, budget - 1)
             ELSE prayer_loop(i + 1, schedule, current_time, today, chat_id,
                              ledger, sends, budget)

\* check_user with the events of a default timetable evaluated when the
\* lookup returns empty.
check_user_evaluating_empty(st, user, t, html, budget) ==
    LET local == localnow(t, user.tz)
        r == parse_prayer_times(st.cache, user.city, date(local), t, html)
        p == prayer_loop(1, IF r.value = <<>> THEN TimesA ELSE r.value,
                         strftime_HM(local), date(local), user.chat_id,
                         st.ledger, st.sends, budget)
    IN  [cache |-> r.cache, ledger |-> p.ledger, calls |-> Append(st.calls, r.call),
         sends |-> p.sends,
         outcome |-> Append(st.outcome, IF p.err THEN "error" ELSE "done")]

\* The body of `for user in users` for one subscriber.
check_user(st, user, t, html, budget) ==
    LET local == localnow(t, user.tz)
        today == date(local)
        current_time == strftime_HM(local)
        r == parse_prayer_times(st.cache, user.city, today, t, html)
        calls == Append(st.calls, r.call)
    IN  IF r.value = <<>>
        THEN [st EXCEPT !.cache = r.cache, !.calls = calls,
                        !.outcome = Append(@, "empty")]
        ELSE LET p == prayer_loop(1, r.value, current_time, today, user.chat_id,
                                  st.ledger, st.sends, budget)
             IN  [cache |-> r.cache, ledger |-> p.ledger, calls |-> calls,
                  sends |-> p.sends,
                  outcome |-> Append(st.outcome, IF p.err THEN "error" ELSE "done")]

RECURSIVE check_users(_, _, _, _, _, _)
check_users(i, users, t, html, budget, st) ==
    IF i > Len(users) THEN st
    ELSE check_users(i + 1, users, t, html, budget,
                     check_user(st, users[i], t, html[users[i].chat_id],
                                budget[users[i].chat_id]))

UserIds(users) == {users[i].chat_id : i \in 1..Len(users)}

\* The pages the provider may return to the lookups of one tick, one for each
\* subscriber; a subscriber whose key is cached reads none (dates[i] is the
\* date of the key of users[i]).
PagesFor(pages, users, c, t, dates) ==
    {h \in [UserIds(users) -> pages] :
        \A i \in 1..Len(users) :
            cache_contains(c, cache_key(users[i].city, dates[i]), t)
                => h[users[i].chat_id] = NoHtml}

check_prayer_times(pages) ==
    /\ started
    /\ LET users == get_subscribed_users(subscribers)
           cleaned == clean_notifications(sent_notifications, now - 86400)
       IN  IF users = <<>>
           THEN /\ last' = Observe("check_prayer_times", FALSE, users,
                                   NoWork(cache, sent_notifications))
                /\ UNCHANGED <<cache, sent_notifications>>
           ELSE IF cleaned.raised
           THEN /\ last' = Observe("check_prayer_times", TRUE, users,
                                   NoWork(cache, sent_notifications))
                /\ UNCHANGED <<cache, sent_notifications>>
           ELSE \E html \in PagesFor(pages, users, cache, now,
                                       [i \in 1..Len(users) |->
                                           date(localnow(now, users[i].tz))]),
                   budget \in [UserIds(users) -> SendBudgets] :
                    LET st == check_users(1, users, now, html, budget,
                                          NoWork(cache, cleaned.keys))
                    IN  /\ cache' = st.cache
                        /\ sent_notifications' = st.ledger
                        /\ last' = Observe("check_prayer_times", FALSE, users, st)
    /\ UNCHANGED <<now, started, subscribers, daily_quotes, sent_daily_schedules,
                   fn_in, fn_out, tasks, digests>>

(***************************************************************************)
(* send_daily_prayer_schedule.                                             *)
(***************************************************************************)
\* A matcher that takes the whole ten minutes before the first event.
is_digest_due_within(time_diff) == time_diff >= 0 /\ time_diff <= 10

\* time_diff == 10
is_digest_due(time_diff) == time_diff = 10

\* The body of `for user in users` for one subscriber; today is the UTC date
\* read at the head of the tick.
schedule_user(st, user, t, today, html, budget) ==
    LET local == localnow(t, user.tz)
        current_time == strftime_HM(local)
        r == parse_prayer_times(st.cache, user.city, today, t, html)
        calls == Append(st.calls, r.call)
        id == schedule_id(today, user.chat_id)
        msg == Message("digest", user.chat_id, "schedule", date(local))
    IN  IF r.value = <<>>
        THEN [st EXCEPT !.cache = r.cache, !.calls = calls, !.outcome = Append(@, "empty")]
        ELSE IF r.value[1] = <<>>
        THEN [st EXCEPT !.cache = r.cache, !.calls = calls, !.outcome = Append(@, "nofajr")]
        ELSE LET fajr_minutes == minutes_of(r.value[1])
                 current_minutes == minutes_of(current_time)
             IN  IF fajr_minutes.err \/ current_minutes.err
                 THEN [st EXCEPT !.cache = r.cache, !.calls = calls,
                                 !.outcome = Append(@, "error")]
                 ELSE IF is_digest_due(fajr_minutes.v - current_minutes.v)
                         /\ id \notin st.ledger
                 THEN LET d == deliver(st.ledger, st.sends, msg, id, budget > 0)
                      IN  [cache |-> r.cache, ledger |-> d.ledger, calls |-> calls,
                           sends |-> d.sends,
                           outcome |-> Append(st.outcome, IF d.err THEN "error" ELSE "done")]
                 ELSE [st EXCEPT !.cache = r.cache, !.calls = calls,
                                 !.outcome = Append(@, "done")]

RECURSIVE schedule_users(_, _, _, _, _, _, _)
schedule_users(i, users, t, today, html, budget, st) ==
    IF i > Len(users) THEN st
    ELSE schedule_users(i + 1, users, t, today, html, budget,
                        schedule_user(st, users[i], t, today, html[users[i].chat_id],
                                      budget[users[i].chat_id]))

send_daily_prayer_schedule(pages) ==
    /\ started
    /\ LET users == get_subscribed_users(subscribers)
           today == date(localnow(now, "UTC"))
           filtered == filter_schedules(sent_daily_schedules, now - 86400)
       IN  IF users = <<>>
           THEN /\ last' = Observe("send_daily_prayer_schedule", FALSE, users,
                                   NoWork(cache, sent_daily_schedules))
                /\ UNCHANGED <<cache, sent_daily_schedules, digests>>
           ELSE IF filtered.raised
           THEN /\ last' = Observe("send_daily_prayer_schedule", TRUE, users,
                                   NoWork(cache, sent_daily_schedules))
                /\ UNCHANGED <<cache, sent_daily_schedules, digests>>
           ELSE \E html \in PagesFor(pages, users, cache, now,
                                       [i \in 1..Len(users) |-> today]),
                   budget \in [UserIds(users) -> SendBudgets] :
                    LET st == schedule_users(1, users, now, today, html, budget,
                                             NoWork(cache, filtered.keys))
                    IN  /\ cache' = st.cache
                        /\ sent_daily_schedules' = st.ledger
                        /\ last' = Observe("send_daily_prayer_schedule", FALSE,
                                           users, st)
                        /\ digests' = count_digests(digests, st.sends)
    /\ UNCHANGED <<now, started, subscribers, daily_quotes, sent_notifications,
                   fn_in, fn_out, tasks>>

(***************************************************************************)
(* send_daily_quote.                                                       *)
(***************************************************************************)
EightOClock == <<"0", "8", ":", "0", "0">>

quote_user(st, user, t, budget) ==
    LET local == localnow(t, user.tz)
        current_time == strftime_HM(local)
        msg == Message("quote", user.chat_id, "ayat", date(local))
    IN  IF current_time = EightOClock
        THEN [st EXCEPT !.sends = send_message(@, msg, <<>>, budget > 0),
                        !.outcome = Append(@, IF budget > 0 THEN "done" ELSE "error")]
        ELSE [st EXCEPT !.outcome = Append(@, "done")]

RECURSIVE quote_users(_, _, _, _, _)
quote_users(i, users, t, budget, st) ==
    IF i > Len(users) THEN st
    ELSE quote_users(i + 1, users, t, budget,
                     quote_user(st, users[i], t, budget[users[i].chat_id]))

send_daily_quote(quote_pages) ==
    /\ started
    /\ LET users == get_subscribed_users(subscribers)
       IN  IF users = <<>>
           THEN /\ last' = Observe("send_daily_quote", FALSE, users, NoWork(cache, {}))
                /\ UNCHANGED cache
           ELSE \E html \in quote_pages, budget \in [UserIds(users) -> SendBudgets] :
                    LET q == get_daily_quote(cache, "ayat", now, html)
                        st0 == [NoWork(q.cache, {}) EXCEPT !.calls = <<q.call>>]
                        st == IF q.value = <<>> THEN st0
                              ELSE quote_users(1, users, now, budget, st0)
                    IN  /\ cache' = st.cache
                        /\ last' = Observe("send_daily_quote", FALSE, users, st)
    /\ UNCHANGED <<now, started, subscribers, daily_quotes, sent_notifications,
                   sent_daily_schedules, fn_in, fn_out, tasks, digests>>

(***************************************************************************)
(* update_data and post_init.                                              *)
(***************************************************************************)
\* CITIES.values(), in the order of the dict.
CityList == <<"moscow", "ufa">>

RECURSIVE refresh_cities(_, _, _, _, _)
refresh_cities(i, today, t, html, st) ==
    IF i > Len(CityList) THEN st
    ELSE LET r == parse_prayer_times(st.cache, CityList[i], today, t, html[CityList[i]])
         IN  refresh_cities(i + 1, today, t, html,
                            [st EXCEPT !.cache = r.cache, !.calls = Append(@, r.call)])

\* The body of update_data: the state after it, and the quote it stores.
refresh(c, t, html, quote_html) ==
    LET today == date(localnow(t, "Europe/Moscow"))
        st == refresh_cities(1, today, t, html, NoWork(c, {}))
        q == get_daily_quote(st.cache, "ayat", t, quote_html)
    IN  [st |-> [st EXCEPT !.cache = q.cache, !.calls = Append(@, q.call)],
         quote |-> q.value]

\* The daily job: 01:00 Europe/Moscow.
update_data(pages, quote_pages) ==
    /\ started
    /\ strftime_HM(localnow(now, "Europe/Moscow")) = <<"0", "1", ":", "0", "0">>
    /\ \E html \in [Cities -> pages], quote_html \in quote_pages :
           LET r == refresh(cache, now, html, quote_html)
           IN  /\ cache' = r.st.cache
               /\ daily_quotes' = r.quote
               /\ last' = Observe("update_data", FALSE, <<>>, r.st)
    /\ UNCHANGED <<now, started, subscribers, sent_notifications, sent_daily_schedules,
                   fn_in, fn_out, tasks, digests>>

post_init(pages, quote_pages) ==
    /\ ~started
    /\ started' = TRUE
    /\ sent_notifications' = {}
    /\ sent_daily_schedules' = {}
    /\ \E html \in [Cities -> pages], quote_html \in quote_pages :
           LET r == refresh(cache, now, html, quote_html)
           IN  /\ cache' = r.st.cache
               /\ daily_quotes' = r.quote
               /\ last' = Observe("post_init", FALSE, <<>>, r.st)
    /\ UNCHANGED <<now, subscribers, fn_in, fn_out, tasks, digests>>

(***************************************************************************)
(* The command handlers that touch the state.                              *)
(***************************************************************************)
set_city(chat_id, city_code) ==
    /\ started
    /\ subscribers' = update_user(subscribers, chat_id, city_code, CITY_TIMEZONES(city_code))
    /\ last' = Idle
    /\ UNCHANGED <<now, started, cache, daily_quotes, sent_notifications,
                   sent_daily_schedules, fn_in, fn_out, tasks, digests>>

subscribe(chat_id) ==
    /\ started
    /\ subscribers' = [subscribers EXCEPT ![chat_id] =
                           IF @.present THEN [@ EXCEPT !.subscribed = 1] ELSE @]
    /\ last' = Idle
    /\ UNCHANGED <<now, started, cache, daily_quotes, sent_notifications,
                   sent_daily_schedules, fn_in, fn_out, tasks, digests>>

unsubscribe(chat_id) ==
    /\ started
    /\ subscribers' = unsubscribe_user(subscribers, chat_id)
    /\ last' = Idle
    /\ UNCHANGED <<now, started, cache, daily_quotes, sent_notifications,
                   sent_daily_schedules, fn_in, fn_out, tasks, digests>>

daily_schedule(chat_id, pages) ==
    /\ started
    /\ IF ~subscribers[chat_id].present
       THEN /\ last' = Observe("daily_schedule", FALSE, <<>>, NoWork(cache, {}))
            /\ UNCHANGED cache
       ELSE \E html \in pages :
               LET row == subscribers[chat_id]
                   today == date(localnow(now, row.tz))
                   r == parse_prayer_times(cache, row.city, today, now, html)
               IN  /\ cache' = r.cache
                   /\ last' = Observe("daily_schedule", FALSE, <<>>,
                                      [NoWork(r.cache, {}) EXCEPT !.calls = <<r.call>>])
    /\ UNCHANGED <<now, started, subscribers, daily_quotes, sent_notifications,
                   sent_daily_schedules, fn_in, fn_out, tasks, digests>>

daily_quote(quote_pages) ==
    /\ started
    /\ \E html \in quote_pages :
           LET q == get_daily_quote(cache, "ayat", now, html)
           IN  /\ cache' = q.cache
               /\ last' = Observe("daily_quote", FALSE, <<>>,
                                  [NoWork(q.cache, {}) EXCEPT !.calls = <<q.call>>])
    /\ UNCHANGED <<now, started, subscribers, daily_quotes, sent_notifications,
                   sent_daily_schedules, fn_in, fn_out, tasks, digests>>

(***************************************************************************)
(* The clock: the instants at which the model looks at the program.        *)
(***************************************************************************)
hms(h, m, s) == h * 3600 + m * 60 + s

\* The instants of the days 0..MaxDay that fall at the given times of day.
At(times) == {d * 86400 + s : d \in 0..MaxDay, s \in times}

TimesOfDay == {hms(0, 0, 0), hms(1, 50, 0), hms(2, 0, 0), hms(3, 0, 0), hms(5, 0, 0),
               hms(22, 0, 0), hms(23, 50, 0)}

Instants == At(TimesOfDay)

\* Time passes.
Advance(instants) ==
    /\ \E t \in instants : t > now /\ now' = t
    /\ last' = Idle
    /\ UNCHANGED <<started, subscribers, cache, daily_quotes, sent_notifications,
                   sent_daily_schedules, fn_in, fn_out, tasks, digests>>

(***************************************************************************)
(* The time matcher of check_prayer_times as a function: the prayers of a  *)
(* schedule that the loop sends when no key is in the ledger and no send   *)
(* fails, for a schedule and a local time given as hours and minutes.      *)
(***************************************************************************)
\* "%H:%M" of an hour and a minute
clock(hm) == TwoDigits(hm.h) \o <<":">> \o TwoDigits(hm.m)

due_prayers(schedule, current_time) ==
    LET p == prayer_loop(1, schedule, current_time, 0, 1, {}, {}, Len(PRAYER_NAMES))
    IN  {x.msg.what : x \in p.sends}

\* The hours and minutes the inputs are drawn from.
DueClocks == {[h |-> 0, m |-> 0], [h |-> 5, m |-> 0], [h |-> 0, m |-> 5],
              [h |-> 4, m |-> 59], [h |-> 23, m |-> 59]}

\* Schedules of six times: the later events repeat the times of the first three.
DueSchedules ==
    {<<a, b, c, a, c, b>> : a \in DueClocks, b \in DueClocks, c \in DueClocks}

InitDue ==
    /\ now = 0
    /\ started = FALSE
    /\ subscribers = [c \in ChatIds |-> NoRow]
    /\ cache = EmptyCache
    /\ daily_quotes = <<>>
    /\ sent_notifications = {}
    /\ sent_daily_schedules = {}
    /\ last = Idle
    /\ fn_in \in [schedule : DueSchedules, local : DueClocks, applied : {FALSE}]
    /\ fn_out = {}
    /\ tasks = NoTasks
    /\ digests = NoDigests

match_times ==
    /\ ~fn_in.applied
    /\ fn_in' = [fn_in EXCEPT !.applied = TRUE]
    /\ fn_out' = due_prayers([i \in 1..6 |-> clock(fn_in.schedule[i])], clock(fn_in.local))
    /\ UNCHANGED <<now, started, subscribers, cache, daily_quotes, sent_notifications,
                   sent_daily_schedules, last, tasks, digests>>

(***************************************************************************)
(* The time matcher of send_daily_prayer_schedule as a function: whether   *)
(* the body of the loop sends the digest to a subscriber whose schedule is *)
(* cached, with an empty ledger and a send that succeeds, at a local time  *)
(* given as an hour and a minute.                                          *)
(***************************************************************************)
digest_sent(schedule, current) ==
    LET t == hms(current.h, current.m, 0)
        user == [chat_id |-> 1, city |-> "moscow", tz |-> "UTC"]
        c == cache_setitem(EmptyCache, cache_key(user.city, date(t)), schedule, t)
        st == schedule_user(NoWork(c, {}), user, t, date(t), NoHtml, 1)
    IN  IF st.sends # {} THEN {"digest"} ELSE {}

\* The first events and the local times the inputs are drawn from.
FajrClocks == {[h |-> 0, m |-> 0], [h |-> 0, m |-> 5], [h |-> 0, m |-> 10],
               [h |-> 4, m |-> 59], [h |-> 5, m |-> 0], [h |-> 5, m |-> 1],
               [h |-> 12, m |-> 0], [h |-> 23, m |-> 59]}

LocalClocks == {[h |-> 0, m |-> 0], [h |-> 4, m |-> 49], [h |-> 4, m |-> 50],
                [h |-> 4, m |-> 51], [h |-> 11, m |-> 50], [h |-> 23, m |-> 49],
                [h |-> 23, m |-> 50], [h |-> 23, m |-> 55]}

\* Schedules that differ in their first event.
DigestSchedules ==
    {<<f, [h |-> 6, m |-> 40], [h |-> 12, m |-> 0], [h |-> 14, m |-> 0],
       [h |-> 16, m |-> 30], [h |-> 18, m |-> 10]>> : f \in FajrClocks}

InitDigestDue ==
    /\ now = 0
    /\ started = FALSE
    /\ subscribers = [c \in ChatIds |-> NoRow]
    /\ cache = EmptyCache
    /\ daily_quotes = <<>>
    /\ sent_notifications = {}
    /\ sent_daily_schedules = {}
    /\ last = Idle
    /\ fn_in \in [schedule : DigestSchedules, local : LocalClocks, applied : {FALSE}]
    /\ fn_out = {}
    /\ tasks = NoTasks
    /\ digests = NoDigests

match_digest ==
    /\ ~fn_in.applied
    /\ fn_in' = [fn_in EXCEPT !.applied = TRUE]
    /\ fn_out' = digest_sent([i \in 1..6 |-> clock(fn_in.schedule[i])], fn_in.local)
    /\ UNCHANGED <<now, started, subscribers, cache, daily_quotes, sent_notifications,
                   sent_daily_schedules, last, tasks, digests>>

(***************************************************************************)
(* The coroutines step by step.  A job or a handler runs without           *)
(* interruption from one await that suspends it to the next: await         *)
(* fetch_url(url) in parse_prayer_times on a cache miss, and await         *)
(* context.bot.send_message(...).  While it is suspended the event loop    *)
(* runs the other coroutines.                                              *)
(***************************************************************************)
\* The locals of a run of a schedule job that has read its subscribers.
Started(job, users, today) ==
    [pc |-> "run", job |-> job, users |-> users, i |-> 0, j |-> 0, today |-> today,
     current_time |-> <<>>, schedule |-> <<>>, key |-> <<>>, id |-> <<>>, msg |-> <<>>]

\* The ledger a job checks and marks.
LedgerOf(job) ==
    IF job = "check_prayer_times" THEN sent_notifications ELSE sent_daily_schedules

RECURSIVE job_enter(_, _, _, _, _)
RECURSIVE job_scan(_, _, _, _, _)

\* The body of "for user in users" from the statement after parse_prayer_times
\* has returned task.schedule, at event j, up to the next await that
\* suspends: the task suspended at send_message, or what job_enter gives
\* for the next subscriber.
job_scan(task, j, c, ledger, t) ==
    LET user == task.users[task.i]
        next == job_enter(task, task.i + 1, c, ledger, t)
        current_minutes == minutes_of(task.current_time)
    IN  IF task.schedule = <<>> THEN next
        ELSE IF task.job = "check_prayer_times"
        THEN IF j > Len(task.schedule) THEN next
             ELSE LET prayer == PRAYER_NAMES[j]
                      prayer_minutes == minutes_of(task.schedule[j])
                      id == notification_id(task.today, prayer, user.chat_id)
                  IN  IF prayer_minutes.err \/ current_minutes.err THEN next
                      ELSE IF is_due(prayer_minutes.v - current_minutes.v)
                              /\ id \notin ledger
                      THEN [task EXCEPT !.pc = "send", !.j = j, !.id = id,
                                        !.msg = Message("prayer", user.chat_id, prayer,
                                                        task.today)]
                      ELSE job_scan(task, j + 1, c, ledger, t)
        ELSE IF j > 1 \/ task.schedule[1] = <<>> THEN next
             ELSE LET fajr_minutes == minutes_of(task.schedule[1])
                      id == schedule_id(task.today, user.chat_id)
                  IN  IF fajr_minutes.err \/ current_minutes.err THEN next
                      ELSE IF is_digest_due(fajr_minutes.v - current_minutes.v)
                              /\ id \notin ledger
                      THEN [task EXCEPT !.pc = "send", !.j = 1, !.id = id,
                                        !.msg = Message("digest", user.chat_id, "schedule",
                                                        task.today)]
                      ELSE next

\* The head of the body for subscriber i: the local time is read, the cache
\* is looked up; the task suspended at fetch_url on a miss, what job_scan
\* gives on a hit, the idle task after the last subscriber.
job_enter(task, i, c, ledger, t) ==
    IF i > Len(task.users) THEN NoTask
    ELSE LET user == task.users[i]
             local == localnow(t, user.tz)
             today == IF task.job = "check_prayer_times" THEN date(local) ELSE task.today
             key == cache_key(user.city, today)
             entered == [task EXCEPT !.pc = "run", !.i = i, !.j = 0, !.today = today,
                                     !.current_time = strftime_HM(local), !.key = key,
                                     !.schedule = <<>>]
         IN  IF cache_contains(c, key, t)
             THEN job_scan([entered EXCEPT !.schedule = c[key].value], 1, c, ledger, t)
             ELSE [entered EXCEPT !.pc = "fetch"]

\* The job queue starts check_prayer_times while no run of it is going on.
check_prayer_times_starts ==
    /\ started
    /\ tasks["check_prayer_times"].pc = "idle"
    /\ LET users == get_subscribed_users(subscribers)
           cleaned == clean_notifications(sent_notifications, now - 86400)
       IN  IF users = <<>> \/ cleaned.raised
           THEN UNCHANGED <<sent_notifications, tasks>>
           ELSE /\ sent_notifications' = cleaned.keys
                /\ tasks' = [tasks EXCEPT !["check_prayer_times"] =
                                 job_enter(Started("check_prayer_times", users, 0), 1,
                                           cache, cleaned.keys, now)]
    /\ last' = Idle
    /\ UNCHANGED <<now, started, subscribers, cache, daily_quotes, sent_daily_schedules,
                   fn_in, fn_out, digests>>

\* The job queue starts send_daily_prayer_schedule while no run of it is
\* going on.
send_daily_prayer_schedule_starts ==
    /\ started
    /\ tasks["send_daily_prayer_schedule"].pc = "idle"
    /\ LET users == get_subscribed_users(subscribers)
           today == date(localnow(now, "UTC"))
           filtered == filter_schedules(sent_daily_schedules, now - 86400)
       IN  IF users = <<>> \/ filtered.raised
           THEN UNCHANGED <<sent_daily_schedules, tasks>>
           ELSE /\ sent_daily_schedules' = filtered.keys
                /\ tasks' = [tasks EXCEPT !["send_daily_prayer_schedule"] =
                                 job_enter(Started("send_daily_prayer_schedule", users,
                                                   today), 1, cache, filtered.keys, now)]
    /\ last' = Idle
    /\ UNCHANGED <<now, started, subscribers, cache, daily_quotes, sent_notifications,
                   fn_in, fn_out, digests>>

\* /daily_schedule arrives while no handler is running: the row is read and
\* the handler is suspended at fetch_url on a miss.
daily_schedule_starts(chat_id) ==
    /\ started
    /\ tasks["daily_schedule"].pc = "idle"
    /\ subscribers[chat_id].present
    /\ LET row == subscribers[chat_id]
           today == date(localnow(now, row.tz))
           key == cache_key(row.city, today)
       IN  tasks' = [tasks EXCEPT !["daily_schedule"] =
                        IF cache_contains(cache, key, now) THEN NoTask
                        ELSE [Started("daily_schedule", <<>>, today) EXCEPT
                                  !.pc = "fetch", !.key = key]]
    /\ last' = Idle
    /\ UNCHANGED <<now, started, subscribers, cache, daily_quotes, sent_notifications,
                   sent_daily_schedules, fn_in, fn_out, digests>>

\* await fetch_url(url) returns to the coroutine a: a row found is stored
\* under the key computed before the await, and the coroutine runs on.
fetch_url_returns(a, html) ==
    /\ tasks[a].pc = "fetch"
    /\ LET task == tasks[a]
           value == schedule_of(html, task.today)
           c == IF value = <<>> THEN cache ELSE cache_setitem(cache, task.key, value, now)
       IN  /\ cache' = c
           /\ tasks' = [tasks EXCEPT ![a] =
                            IF a = "daily_schedule" THEN NoTask
                            ELSE job_scan([task EXCEPT !.pc = "run", !.schedule = value],
                                          1, c, LedgerOf(a), now)]
    /\ last' = Idle
    /\ UNCHANGED <<now, started, subscribers, daily_quotes, sent_notifications,
                   sent_daily_schedules, fn_in, fn_out, digests>>

\* await context.bot.send_message(...) returns to the job a, or raises: the
\* key is marked after a send that returned, and the job runs on.
send_message_returns(a, ok) ==
    /\ tasks[a].pc = "send"
    /\ LET task == tasks[a]
           ledger == IF ok THEN mark_sent(LedgerOf(a), task.id) ELSE LedgerOf(a)
           on == IF ok THEN job_scan([task EXCEPT !.pc = "run"], task.j + 1, cache,
                                     ledger, now)
                 ELSE job_enter(task, task.i + 1, cache, ledger, now)
       IN  /\ tasks' = [tasks EXCEPT ![a] = on]
           /\ IF a = "check_prayer_times"
              THEN sent_notifications' = ledger /\ UNCHANGED sent_daily_schedules
              ELSE sent_daily_schedules' = ledger /\ UNCHANGED sent_notifications
    /\ last' = Idle
    /\ UNCHANGED <<now, started, subscribers, cache, daily_quotes, fn_in, fn_out, digests>>

(***************************************************************************)
(* The specification.                                                      *)
(***************************************************************************)
Init ==
    /\ now = 0
    /\ started = FALSE
    /\ subscribers = [c \in ChatIds |-> NoRow]
    /\ cache = EmptyCache
    /\ daily_quotes = <<>>
    /\ sent_notifications = {}
    /\ sent_daily_schedules = {}
    /\ last = Idle
    /\ fn_in = [schedule |-> <<>>, local |-> [h |-> 0, m |-> 0], applied |-> TRUE]
    /\ fn_out = {}
    /\ tasks = NoTasks
    /\ digests = NoDigests

Next ==
    \/ post_init(TickPages, TickQuotePages)
    \/ update_data(TickPages, TickQuotePages)
    \/ check_prayer_times(TickPages)
    \/ send_daily_prayer_schedule(TickPages)
    \/ send_daily_quote(TickQuotePages)
    \/ \E c \in ChatIds, city \in Cities : set_city(c, city)
    \/ \E c \in ChatIds : subscribe(c)
    \/ \E c \in ChatIds : unsubscribe(c)
    \/ \E c \in ChatIds : daily_schedule(c, Pages)
    \/ daily_quote(QuotePages)
    \/ Advance(Instants)

Spec == Init /\ [][Next]_vars

\* The poll jobs, one at a time, with the subscribers choosing their cities.
PrayerTimes == {hms(0, 0, 0), hms(2, 0, 0), hms(3, 0, 0)}

NextPrayer ==
    \/ post_init(TickPages, TickQuotePages)
    \/ check_prayer_times(TickPages)
    \/ \E c \in ChatIds, city \in Cities : set_city(c, city)
    \/ Advance(At(PrayerTimes))

SpecPrayer == Init /\ [][NextPrayer]_vars

DigestTimes == {hms(0, 0, 0), hms(1, 50, 0), hms(23, 50, 0)}

NextDigest ==
    \/ post_init(TickPages, TickQuotePages)
    \/ send_daily_prayer_schedule(TickPages)
    \/ \E c \in ChatIds, city \in Cities : set_city(c, city)
    \/ Advance(At(DigestTimes))

SpecDigest == Init /\ [][NextDigest]_vars

QuoteTimes == {hms(0, 0, 0), hms(3, 0, 0), hms(5, 0, 0)}

NextQuote ==
    \/ post_init(TickPages, TickQuotePages)
    \/ send_daily_quote(TickQuotePages)
    \/ \E c \in ChatIds, city \in Cities : set_city(c, city)
    \/ Advance(At(QuoteTimes))

SpecQuote == Init /\ [][NextQuote]_vars

\* The two poll jobs that look schedules up, together.
PollTimes == {hms(0, 0, 0), hms(1, 50, 0)}

NextPoll ==
    \/ post_init(TickPages, TickQuotePages)
    \/ check_prayer_times(TickPages)
    \/ send_daily_prayer_schedule(TickPages)
    \/ \E c \in ChatIds, city \in Cities : set_city(c, city)
    \/ Advance(At(PollTimes))

SpecPoll == Init /\ [][NextPoll]_vars

\* The operations that look up the cache outside the poll loops, with a clock
\* that steps around the time to live.
CacheTimes == {hms(0, 0, 0), hms(0, 59, 59), hms(1, 0, 0), hms(22, 0, 0)}

NextCache ==
    \/ post_init(TickPages, TickQuotePages)
    \/ update_data(TickPages, TickQuotePages)
    \/ \E c \in ChatIds, city \in Cities : set_city(c, city)
    \/ \E c \in ChatIds : daily_schedule(c, Pages)
    \/ daily_quote(TickQuotePages)
    \/ Advance(At(CacheTimes))

SpecCache == Init /\ [][NextCache]_vars

\* The two schedule jobs with subscribers who come and go.
SubsTimes == {hms(0, 0, 0), hms(1, 50, 0)}

NextSubs ==
    \/ post_init(TickPages, TickQuotePages)
    \/ check_prayer_times(TickPages)
    \/ send_daily_prayer_schedule(TickPages)
    \/ \E c \in ChatIds, city \in Cities : set_city(c, city)
    \/ \E c \in ChatIds : subscribe(c)
    \/ \E c \in ChatIds : unsubscribe(c)
    \/ Advance(At(SubsTimes))

SpecSubs == Init /\ [][NextSubs]_vars

\* The four jobs of the queue on one day, with subscribers who change city
\* and unsubscribe.
JobTimes == {hms(0, 0, 0), hms(22, 0, 0)}

NextJobs ==
    \/ post_init(TickPages, TickQuotePages)
    \/ check_prayer_times(TickPages)
    \/ send_daily_prayer_schedule(TickPages)
    \/ send_daily_quote(TickQuotePages)
    \/ update_data(TickPages, TickQuotePages)
    \/ \E c \in ChatIds, city \in Cities : set_city(c, city)
    \/ \E c \in ChatIds : unsubscribe(c)
    \/ Advance(JobTimes)

SpecJobs == Init /\ [][NextJobs]_vars

\* check_prayer_times against a provider that serves a well-formed page or a
\* page with an empty cell.
ParseTimes == {hms(0, 0, 0), hms(2, 0, 0)}

NextParse ==
    \/ post_init(TickPages, TickQuotePages)
    \/ check_prayer_times({PageA, PageC})
    \/ \E c \in ChatIds, city \in Cities : set_city(c, city)
    \/ Advance(At(ParseTimes))

SpecParse == Init /\ [][NextParse]_vars

\* The coroutines of the two schedule jobs and of /daily_schedule,
\* interleaved at their awaits.
AsyncTimes == {hms(0, 0, 0), hms(0, 1, 0)}

JobNames == {"check_prayer_times", "send_daily_prayer_schedule"}

NextAsync ==
    \/ post_init(TickPages, TickQuotePages)
    \/ check_prayer_times_starts
    \/ send_daily_prayer_schedule_starts
    \/ \E c \in ChatIds : daily_schedule_starts(c)
    \/ \E a \in TaskNames, html \in TickPages : fetch_url_returns(a, html)
    \/ \E a \in JobNames, ok \in BOOLEAN : send_message_returns(a, ok)
    \/ \E c \in ChatIds, city \in Cities : set_city(c, city)
    \/ Advance(AsyncTimes)

SpecAsync == Init /\ [][NextAsync]_vars

\* The time matcher alone.
NextDue == match_times

SpecDue == InitDue /\ [][NextDue]_vars

\* The digest matcher alone.
NextDigestDue == match_digest

SpecDigestDue == InitDigestDue /\ [][NextDigestDue]_vars

(***************************************************************************)
(* Properties.                                                             *)
(***************************************************************************)
\* C1: over the passes of check_prayer_times, a (subscriber, prayer, local
\* date) notification is sent at most once: a pass that follows another in
\* the same minute delivers none of the notifications the first delivered.
C1_SentAtMostOnce ==
    [][(last.op = "check_prayer_times" /\ last'.op = "check_prayer_times")
           => Delivered(last.sends) \cap Delivered(last'.sends) = {}]_vars

\* C2: in every tick of send_daily_prayer_schedule, a subscriber for whom the
\* schedule is available, Fajr minus the local time is 10 minutes, the digest
\* key is not in sent_daily_schedules when the tick starts and no send fails,
\* is delivered the digest in that tick, whatever else the ledger holds.
C2_DigestDeliveredWhenDue ==
    [][last'.op = "send_daily_prayer_schedule" =>
          \A i \in 1..Len(last'.users) :
              LET user == last'.users[i]
                  today == date(localnow(now, "UTC"))
                  k == cache_key(user.city, today)
                  current_time == strftime_HM(localnow(now, user.tz))
                  schedule == IF i <= Len(last'.calls) THEN last'.calls[i].value
                              ELSE IF cache_contains(cache, k, now) THEN cache[k].value
                              ELSE <<>>
              IN  (/\ schedule # <<>>
                   /\ minutes_of(schedule[1]).v - minutes_of(current_time).v = 10
                   /\ schedule_id(today, user.chat_id) \notin sent_daily_schedules
                   /\ \A x \in last'.sends : x.msg.chat = user.chat_id => x.ok)
                  => \E x \in last'.sends :
                         x.ok /\ x.msg.chat = user.chat_id /\ x.msg.kind = "digest"]_vars

\* C3: no content of a ledger makes a poll tick abort before its subscriber
\* loop: a tick of check_prayer_times or send_daily_prayer_schedule that read
\* subscribers raises nothing and processes every one of them, and a key
\* that was in its ledger with a date part that does not parse into a date
\* is dropped (it is in the ledger afterwards only if the tick wrote it).
C3_PruneNeverAborts ==
    [][(last'.op \in {"check_prayer_times", "send_daily_prayer_schedule"}
            /\ last'.users # <<>>) =>
          LET before == IF last'.op = "check_prayer_times"
                        THEN sent_notifications ELSE sent_daily_schedules
              after == IF last'.op = "check_prayer_times"
                       THEN sent_notifications' ELSE sent_daily_schedules'
          IN  /\ ~last'.raised
              /\ Len(last'.outcome) = Len(last'.users)
              /\ \A k \in before :
                     strptime(date_part(k)).err
                         => k \notin after \/ \E x \in last'.sends : x.ok /\ x.key = k]_vars

\* C4: the prune of a tick of check_prayer_times keeps exactly the keys whose
\* embedded date is not more than one day older than the reference instant:
\* a key written for today's date is in the ledger after every later tick of
\* the same day.
C4_PruneKeepsRecentKeys ==
    [][(last'.op = "check_prayer_times" /\ last'.users # <<>>) =>
          \A k \in sent_notifications :
              k \in sent_notifications'
                  <=> strptime(SubSeq(k, 1, 10)).v * 86400 > now - 86400]_vars

\* C5: over the ticks of send_daily_quote, the daily quote is sent to a
\* subscriber at most once per day: a tick that follows another in the same
\* 08:00 minute delivers none of the quotes the first delivered.
C5_QuoteAtMostOnce ==
    [][(last.op = "send_daily_quote" /\ last'.op = "send_daily_quote")
           => Delivered(last.sends) \cap Delivered(last'.sends) = {}]_vars

\* C6: when the send of a due prayer notification fails in a tick of
\* check_prayer_times, its key is not in sent_notifications after the tick,
\* the tick raises nothing and looks up and processes every subscriber it
\* read, and the tick that follows in the same minute sends it again.
C6_FailedSendIsRetried ==
    [][/\ last'.op = "check_prayer_times" =>
              \A x \in last'.sends :
                  ~x.ok => /\ x.key \notin sent_notifications'
                           /\ ~last'.raised
                           /\ Len(last'.outcome) = Len(last'.users)
                           /\ Len(last'.calls) = Len(last'.users)
       /\ (last.op = "check_prayer_times" /\ last'.op = "check_prayer_times") =>
              \A x \in last.sends :
                  ~x.ok => \E y \in last'.sends : y.msg = x.msg /\ y.key = x.key]_vars

\* C6 witness: a tick in which the send to the first subscriber failed and
\* the subscriber after it was sent its notification.
C6_Witness ==
    /\ last.op = "check_prayer_times"
    /\ Len(last.users) = 2
    /\ \E x \in last.sends : ~x.ok /\ x.msg.chat = last.users[1].chat_id
    /\ \E y \in last.sends : y.ok /\ y.msg.chat = last.users[2].chat_id

\* C7: when the schedule lookup for a subscriber returns empty in a tick of
\* check_prayer_times or send_daily_prayer_schedule, nothing is sent to that
\* subscriber and no key of the subscriber is added to the ledgers, the tick
\* raises nothing, and every subscriber of the tick is looked up and
\* processed.
C7_EmptyScheduleIsSkipped ==
    [][last'.op \in {"check_prayer_times", "send_daily_prayer_schedule"} =>
          \A i \in 1..Len(last'.calls) :
              last'.calls[i].value = <<>> =>
                  LET chat_id == last'.users[i].chat_id
                      marked == (sent_notifications' \cup sent_daily_schedules')
                                    \ (sent_notifications \cup sent_daily_schedules)
                  IN  /\ last'.outcome[i] = "empty"
                      /\ \A x \in last'.sends : x.msg.chat # chat_id
                      /\ \A k \in marked :
                             split(k, "-")[Len(split(k, "-"))] # str(chat_id)
                      /\ ~last'.raised
                      /\ Len(last'.outcome) = Len(last'.users)
                      /\ Len(last'.calls) = Len(last'.users)]_vars

\* C7 witness: a digest tick in which the lookup of the first subscriber was
\* empty and the second subscriber was sent the digest.
C7_Witness ==
    /\ last.op = "send_daily_prayer_schedule"
    /\ Len(last.users) = 2
    /\ last.calls[1].value = <<>>
    /\ \E y \in last.sends : y.ok /\ y.msg.chat = last.users[2].chat_id

\* C8: parse_prayer_times and get_daily_quote never store an empty result:
\* no entry of the cache holds an empty value; a call that returns empty made
\* a fetch and leaves its key absent from the cache; and the next call for
\* the same key, in the same operation or in the one that follows, fetches
\* again.
C8_EmptyResultNotCached ==
    [][/\ \A k \in DOMAIN cache' : cache'[k].value # <<>>
       /\ \A i \in 1..Len(last'.calls) :
              last'.calls[i].value = <<>> =>
                  /\ last'.calls[i].fetched
                  /\ ~last'.calls[i].stored
                  /\ \A j \in (i + 1)..Len(last'.calls) :
                         (/\ last'.calls[j].key = last'.calls[i].key
                          /\ \A m \in (i + 1)..(j - 1) :
                                 last'.calls[m].key # last'.calls[i].key)
                             => last'.calls[j].fetched
       /\ \A i \in 1..Len(last.calls) :
              (/\ last.calls[i].value = <<>>
               /\ \A m \in (i + 1)..Len(last.calls) : last.calls[m].key # last.calls[i].key)
                  => \A j \in 1..Len(last'.calls) :
                         (/\ last'.calls[j].key = last.calls[i].key
                          /\ \A m \in 1..(j - 1) : last'.calls[m].key # last.calls[i].key)
                             => last'.calls[j].fetched]_vars

\* C8 witness: a schedule lookup of the command handler that fetched,
\* returned empty and left the key absent.
C8_Witness ==
    /\ last.op = "daily_schedule"
    /\ Len(last.calls) = 1
    /\ last.calls[1].value = <<>>
    /\ last.calls[1].fetched
    /\ last.calls[1].key \notin DOMAIN cache

\* C9: a lookup of a key whose value was stored less than CACHE_TIMEOUT
\* seconds ago returns the stored value without a fetch, and a lookup of a
\* key whose value was stored CACHE_TIMEOUT seconds ago or more fetches.
C9_TtlDecidesFetch ==
    \A i \in 1..Len(last.calls) :
        LET call == last.calls[i]
        IN  call.before.present =>
                IF now - call.before.at < CACHE_TIMEOUT
                THEN ~call.fetched /\ call.value = call.before.value
                ELSE call.fetched

\* C9 witness: a lookup served from an entry stored 3599 seconds before.
C9_Witness ==
    \E i \in 1..Len(last.calls) :
        /\ last.calls[i].before.present
        /\ now - last.calls[i].before.at = CACHE_TIMEOUT - 1
        /\ ~last.calls[i].fetched

\* C10: for a schedule of six valid times and a local time, the prayers the
\* loop of check_prayer_times treats as due are exactly the events whose
\* hour * 60 + minute equals the local hour * 60 + minute (none when no
\* event matches).
C10_DueSetIsExact ==
    fn_in.applied /\ fn_in.schedule # <<>> =>
        fn_out = {PRAYER_NAMES[i] : i \in
                     {j \in 1..Len(PRAYER_NAMES) :
                         fn_in.schedule[j].h * 60 + fn_in.schedule[j].m
                             = fn_in.local.h * 60 + fn_in.local.m}}

\* C10 witness: a schedule and a local time with two due events and four
\* events that are not due.
C10_Witness ==
    /\ fn_in.applied
    /\ fn_in.schedule # <<>>
    /\ Cardinality(fn_out) = 2

\* C11: the digest is due for a subscriber exactly when the minute of day of
\* the first event minus the local minute of day equals 10 (with the first
\* event at 05:00: due at 04:50, not due at 04:51).
C11_DigestDueAtTen ==
    fn_in.applied /\ fn_in.schedule # <<>> =>
        (fn_out = {"digest"}
            <=> (fn_in.schedule[1].h * 60 + fn_in.schedule[1].m)
                    - (fn_in.local.h * 60 + fn_in.local.m) = 10)

\* C11 witness: the first event at 05:00 and the local time 04:50, with the
\* digest sent.
C11_Witness ==
    /\ fn_in.applied
    /\ fn_in.schedule # <<>>
    /\ fn_in.schedule[1] = [h |-> 5, m |-> 0]
    /\ fn_in.local = [h |-> 4, m |-> 50]
    /\ fn_out = {"digest"}

\* C19: over any sequence of ticks, a subscriber is delivered the full-day
\* digest of one calendar date at most once.
C19_DigestAtMostOnce == \A k \in DOMAIN digests : digests[k] <= 1

\* A digest was delivered, its key is in the ledger, and a later tick of the
\* digest job has run with that key present.
C19_Witness ==
    /\ \E k \in DOMAIN digests : digests[k] = 1
    /\ sent_daily_schedules # {}
    /\ last.op = "send_daily_prayer_schedule"
    /\ Delivered(last.sends) = {}

\* C14: a tick of either poll job looks the schedule up under, and builds
\* its ledger keys from, the subscriber's local date at the tick: every
\* lookup key is city_<local date> and every send key starts with the local
\* date of the subscriber it addresses.
C14_LocalDateEverywhere ==
    last.op \in {"check_prayer_times", "send_daily_prayer_schedule"} =>
        /\ \A i \in 1..Len(last.calls) :
               LET user == last.users[i]
               IN  last.calls[i].key = cache_key(user.city, date(localnow(now, user.tz)))
        /\ \A x \in last.sends :
               \E i \in 1..Len(last.users) :
                   LET user == last.users[i]
                   IN  /\ x.msg.chat = user.chat_id
                       /\ SubSeq(x.key, 1, 10)
                              = strftime_date(date(localnow(now, user.tz)))

\* C18: a key enters a ledger only in a tick of the job that owns the ledger
\* and only for a message the channel accepted in that same tick; a send
\* that failed in the tick leaves its key out.
C18_KeyOnlyAfterDelivery ==
    [][/\ \A k \in sent_notifications' \ sent_notifications :
              /\ last'.op = "check_prayer_times"
              /\ \E x \in last'.sends : x.ok /\ x.key = k /\ x.msg.kind = "prayer"
       /\ \A k \in sent_daily_schedules' \ sent_daily_schedules :
              /\ last'.op = "send_daily_prayer_schedule"
              /\ \E x \in last'.sends : x.ok /\ x.key = k /\ x.msg.kind = "digest"
       /\ \A x \in last'.sends :
              (~x.ok /\ ~\E y \in last'.sends : y.ok /\ y.key = x.key)
                  => x.key \notin (sent_notifications' \ sent_notifications)
                                  \cup (sent_daily_schedules' \ sent_daily_schedules)]_vars

\* One tick delivered a message and marked its key, and failed to deliver
\* another whose key it left out.
C18_Witness ==
    /\ \E x \in last.sends :
           x.ok /\ x.key \in sent_notifications \cup sent_daily_schedules
    /\ \E x \in last.sends :
           ~x.ok /\ x.key \notin sent_notifications \cup sent_daily_schedules

\* C15: every tick of a poll job that completes has pruned its ledger, the
\* ticks that find no subscriber included: after the tick the job's ledger
\* holds no key whose date lies a day or more before the tick.
C15_EveryTickPrunes ==
    /\ (last.op = "check_prayer_times" /\ ~last.raised) =>
           \A k \in sent_notifications :
               strptime(SubSeq(k, 1, 10)).v * 86400 > now - 86400
    /\ (last.op = "send_daily_prayer_schedule" /\ ~last.raised) =>
           \A k \in sent_daily_schedules :
               strptime(SubSeq(k, 1, 10)).v * 86400 > now - 86400

\* C17 as stated: the ledgers are bounded by the number of subscribers that
\* are active (subscribed = 1) in the state.
C17_BoundedByActiveUsers ==
    LET n == Len(get_subscribed_users(subscribers))
    IN  /\ Cardinality(sent_notifications) <= n * Len(PRAYER_NAMES) * 2
        /\ Cardinality(sent_daily_schedules) <= n * 2

\* C17: in every reachable state the ledgers are bounded by the number of
\* subscriber records, active or not: sent_notifications holds at most
\* records * 6 prayers * 2 dates keys, sent_daily_schedules records * 2.
C17_BoundedByRecords ==
    LET n == Cardinality({c \in ChatIds : subscribers[c].present})
    IN  /\ Cardinality(sent_notifications) <= n * Len(PRAYER_NAMES) * 2
        /\ Cardinality(sent_daily_schedules) <= n * 2

\* Both ledgers hold a key of a subscriber who has unsubscribed since, and no
\* subscriber is active.
C17_Witness ==
    /\ get_subscribed_users(subscribers) = <<>>
    /\ sent_notifications # {}
    /\ sent_daily_schedules # {}

\* C20: a tick of check_prayer_times, send_daily_prayer_schedule,
\* send_daily_quote or update_data leaves the subscriber records as they
\* were; a poll tick works on one snapshot, the records with subscribed = 1
\* at its start in the order of chat_id, and a tick of a schedule job that
\* gets to its loop visits each subscriber of the snapshot once.
C20_JobsOnlyReadSubscribers ==
    [][/\ last'.op \in {"check_prayer_times", "send_daily_prayer_schedule",
                        "send_daily_quote", "update_data"}
          => subscribers' = subscribers
       /\ last'.op \in {"check_prayer_times", "send_daily_prayer_schedule",
                        "send_daily_quote"}
          => LET users == last'.users
                 active == {c \in ChatIds : subscribers[c].present
                                               /\ subscribers[c].subscribed = 1}
             IN  /\ Len(users) = Cardinality(active)
                 /\ \A i \in 1..Len(users) :
                        /\ users[i].chat_id \in active
                        /\ users[i].city = subscribers[users[i].chat_id].city
                        /\ users[i].tz = subscribers[users[i].chat_id].tz
                        /\ \A j \in 1..(i - 1) : users[j].chat_id < users[i].chat_id
       /\ (last'.op \in {"check_prayer_times", "send_daily_prayer_schedule"}
              /\ ~last'.raised)
          => Len(last'.outcome) = Len(last'.users)]_vars

\* A poll tick has run over a snapshot of one active subscriber while the
\* database also holds the record of one who unsubscribed.
C20_Witness ==
    /\ last.op \in {"check_prayer_times", "send_daily_prayer_schedule", "send_daily_quote"}
    /\ Len(last.users) = 1
    /\ \E c \in ChatIds : subscribers[c].present /\ subscribers[c].subscribed = 0
    /\ last.sends # {}

\* C16: a schedule in which some event time is missing or is not a 24-hour
\* HH:MM time is treated as unavailable: a lookup of check_prayer_times
\* that obtains one does not store it in the cache, and the tick sends the
\* subscriber no notification from it.
C16_InvalidScheduleUnavailable ==
    last.op = "check_prayer_times" =>
        \A i \in 1..Len(last.calls) :
            LET v == last.calls[i].value
            IN  (v # <<>> /\ \E j \in 1..Len(v) : v[j] \notin ClockStrings)
                    => /\ ~last.calls[i].stored
                       /\ \A x \in last.sends : x.msg.chat # last.users[i].chat_id

\* C12: between the membership check of a dedup key and its insertion a job
\* is not suspended: while a job has passed the check and has not yet
\* marked the key, no other coroutine takes a step.
C12_CheckAndMarkAtomic ==
    [][\A a \in JobNames :
           tasks[a].pc = "send" => \A b \in TaskNames \ {a} : tasks'[b] = tasks[b]]_vars

\* C13: at most one fetch of a (city, date) key is in flight: no two
\* coroutines are suspended in fetch_url for the same cache key.
C13_SingleFlight ==
    \A a, b \in TaskNames :
        (a # b /\ tasks[a].pc = "fetch" /\ tasks[b].pc = "fetch")
            => tasks[a].key # tasks[b].key

\* C21: the flag of a subscriber who has unsubscribed is turned back on by
\* subscribe alone, which writes nothing but the flag: no step that changes
\* the city or the time zone of a record with subscribed = 0 leaves it with
\* subscribed = 1, and so no poll tick reads the subscriber again before
\* they subscribe.
C21_UnsubscribedUntilSubscribe ==
    [][\A c \in ChatIds :
           (/\ subscribers[c].present
            /\ subscribers[c].subscribed = 0
            /\ subscribers'[c].subscribed = 1)
               => /\ subscribers'[c].city = subscribers[c].city
                  /\ subscribers'[c].tz = subscribers[c].tz]_vars

====
